---- MODULE Spec2Model ----
(***************************************************************************)
(* The crosswalk discrete-event simulation of src/sim.py: the event queue  *)
(* and clock (Simulation), the traffic light (Light), the pedestrian       *)
(* manager (PedManager) and the car manager (CarManager), as run by the    *)
(* main program pipeline (src/sim.py:467-496).                             *)
(*                                                                         *)
(* Units.  The program computes in floating point seconds, feet and feet   *)
(* per second.  The model computes in integers: times in milliseconds,     *)
(* speeds in tenths of a foot per second, distances in hundredths of a     *)
(* foot.  The speeds drawn are chosen so that every quotient the program   *)
(* takes is exact in these units.                                          *)
(***************************************************************************)
EXTENDS Integers, Sequences, FiniteSets, TLC

VARIABLES sim, pc, fails, draw, acc

\* sim is the Simulation object, pc the place of start(); fails counts the
\* button draws that failed, draw is the last button draw a handler made (0
\* when it made none) and acc is a Welford accumulator with the history of
\* its samples.
vars == <<sim, pc, fails, draw, acc>>

\* ---------------------------------------------------------------- units
Tick == 10^3                \* milliseconds per second
SpeedScale == 10^1          \* speed units per ft/s
DistScale == SpeedScale * SpeedScale   \* distance units per foot
Mille == 10^3               \* a uniform draw u in (0,1) is u * Mille

\* ---------------------------------------------------------------- bounds
NSmall == 2                 \* N of the runs of Spec
NCrowd == 23                \* N of the runs of SpecCrowd
MaxFail == 2                \* failing button draws in one run
MaxSamples == 4             \* samples inserted in the runs of SpecWelford

\* ------------------------------------------------- simulation constants
BLOCKWIDTH == 330
STREETWIDTH == 46
CROSSWIDTH == 24
REDTIMEOUT == 18 * Tick
YELLOWTIMEOUT == 8 * Tick
GREENTIMEOUT == 35 * Tick
LENGTH == 9
CARACC == 10
MAXPEDS == 20
IMPATIENT == 60 * Tick

\* uniform(VKA, VKB): pedestrian speeds in (2.6, 4.1) ft/s
VKA == 26
VKB == 41
\* uniform(VJA, VJB): car speeds in (100/3, 154/3) ft/s, times 3
VJA3 == 100 * SpeedScale
VJB3 == 154 * SpeedScale

\* -------------------------------------------------------- event queue
Event(at, type, id) == [at |-> at, type |-> type, id |-> id]

\* Event.__lt__ with the comparison turned round
LtReversed(a, b) == a.at > b.at

\* Event.__lt__
Lt(a, b) == a.at < b.at

\* heapq._siftdown(heap, startpos, pos), positions counted from 0
RECURSIVE siftdown(_, _, _, _)
siftdown(heap, startpos, pos, newitem) ==
    IF pos > startpos
    THEN LET parentpos == (pos - 1) \div 2
             parent == heap[parentpos + 1]
         IN  IF Lt(newitem, parent)
             THEN siftdown([heap EXCEPT ![pos + 1] = parent], startpos, parentpos, newitem)
             ELSE [heap EXCEPT ![pos + 1] = newitem]
    ELSE [heap EXCEPT ![pos + 1] = newitem]

\* heapq.heappush
push(heap, item) ==
    LET h == Append(heap, item)
    IN  siftdown(h, 0, Len(h) - 1, item)

\* the loop of heapq._siftup: bubble the smaller child up until a leaf
RECURSIVE siftuploop(_, _, _)
siftuploop(heap, pos, endpos) ==
    LET childpos == 2 * pos + 1
        rightpos == childpos + 1
        c == IF rightpos < endpos /\ ~Lt(heap[childpos + 1], heap[rightpos + 1])
             THEN rightpos ELSE childpos
    IN  IF childpos < endpos
        THEN siftuploop([heap EXCEPT ![pos + 1] = heap[c + 1]], c, endpos)
        ELSE <<heap, pos>>

\* heapq._siftup(heap, pos)
siftup(heap, pos) ==
    LET newitem == heap[pos + 1]
        r == siftuploop(heap, pos, Len(heap))
    IN  siftdown([r[1] EXCEPT ![r[2] + 1] = newitem], pos, r[2], newitem)

\* heapq.heappop: the heap that is left (the item returned is heap[1])
pop(heap) ==
    LET lastelt == heap[Len(heap)]
        rest == SubSeq(heap, 1, Len(heap) - 1)
    IN  IF rest # <<>> THEN siftup([rest EXCEPT ![1] = lastelt], 0) ELSE rest

\* Simulation.insert
insert(S, delta, type, id) ==
    [S EXCEPT !.queue = push(@, Event(S.time + delta, type, id)),
              !.totalevents = @ + 1]

\* self.sim.log += ...
Log(S, tag, id) == [S EXCEPT !.log = Append(@, <<tag, id>>)]

\* ------------------------------------------------------------ variates
\* bernouli(p, token) with p = pnum / pden and the draw u: u >= 1.0 - p
bernouli(pnum, pden, u) == u * pden >= (pden - pnum) * Mille

\* ------------------------------------------------------------ Welford
\* Welford.insert: the samples inserted so far, in order (i is their number)
WelfordInsert(w, id, x) == Append(w, [id |-> id, x |-> x])

\* a rational number is <<numerator, denominator>> in lowest terms
RECURSIVE Gcd(_, _)
Gcd(a, b) == IF b = 0 THEN a ELSE Gcd(b, a % b)

Abs(a) == IF a < 0 THEN -a ELSE a

Rat(n, d) ==
    LET g == Gcd(Abs(n), Abs(d))
        sgn == IF d < 0 THEN -1 ELSE 1
    IN  <<(sgn * n) \div g, (sgn * d) \div g>>

RAdd(p, q) == Rat((p[1] * q[2]) + (q[1] * p[2]), p[2] * q[2])
RSub(p, q) == Rat((p[1] * q[2]) - (q[1] * p[2]), p[2] * q[2])
RMul(p, q) == Rat(p[1] * q[1], p[2] * q[2])
RDiv(p, q) == Rat(p[1] * q[2], p[2] * q[1])
RInt(n) == <<n, 1>>

\* Welford.__init__
Welford == [avg |-> RInt(0), var |-> RInt(0), i |-> 0]

\* Welford.insert of the number x, in exact arithmetic
Winsert(w, x) ==
    LET i == w.i + 1
        d == RSub(RInt(x), w.avg)
        avg == RAdd(w.avg, RDiv(d, RInt(i)))
        var == RAdd(w.var, RDiv(RMul(RInt(i - 1), RMul(d, d)), RInt(i)))
    IN  [avg |-> avg, var |-> var, i |-> i]

\* Welford.mean
mean(w) == w.avg

\* Welford.variance that divides by i - 1, the sample variance
varianceBessel(w) == IF w.i > 1 THEN RDiv(w.var, RInt(w.i - 1)) ELSE RInt(0)

\* Welford.variance
variance(w) == IF w.i > 0 THEN RDiv(w.var, RInt(w.i)) ELSE RInt(0)

\* -------------------------------------------------------------- lists
IndexOf(list, id) ==
    IF \E i \in 1..Len(list) : list[i].id = id
    THEN CHOOSE i \in 1..Len(list) :
            /\ list[i].id = id
            /\ \A j \in 1..(i - 1) : list[j].id # id
    ELSE 0

RemoveAt(list, i) == SubSeq(list, 1, i - 1) \o SubSeq(list, i + 1, Len(list))

Ids(list) == {list[i].id : i \in 1..Len(list)}

\* ------------------------------------------------------------- entities
\* Ped.__init__: atlight and walktime follow from the speed drawn
Ped(id, at, speed) ==
    [id |-> id, at |-> at, speed |-> speed,
     atlight |-> ((BLOCKWIDTH + STREETWIDTH) * Tick * SpeedScale) \div speed,
     walktime |-> (STREETWIDTH * Tick * SpeedScale) \div speed]

\* Car.__init__
Car(id, at, speed) ==
    [id |-> id, atime |-> at, speed |-> speed,
     brakedist |-> (speed * speed) \div (2 * CARACC),
     braketime |-> (speed * Tick) \div (SpeedScale * CARACC),
     shouldstop |-> FALSE, stoptime |-> -1]

\* CarManager.__init__: the corridor, in feet
total == (7 * BLOCKWIDTH) + (6 * STREETWIDTH)
before == (total - CROSSWIDTH) \div 2
after == ((total + CROSSWIDTH) \div 2) + LENGTH

\* distance / speed, a time: dist in distance units, speed in speed units
Over(dist, speed) == (dist * Tick) \div (SpeedScale * speed)

\* ----------------------------------------------------------- CarManager
\* posa and posb of CarManager.lightchange are (elapsed time) / car.speed;
\* "pos < feet" and "pos > feet" are compared without rounding
PosLess(elapsed, speed, feet) == elapsed * SpeedScale < feet * Tick * speed
PosMore(elapsed, speed, feet) == elapsed * SpeedScale > feet * Tick * speed

\* the test of CarManager.lightchange(YELLOW) with "and" for "or"
MustStopBoth(S, car) ==
    /\ PosLess(S.time + YELLOWTIMEOUT - car.atime, car.speed, after)
    /\ PosMore(S.time + YELLOWTIMEOUT + REDTIMEOUT - car.atime, car.speed, before)

\* the test of CarManager.lightchange(YELLOW) on one driving car
MustStop(S, car) ==
    \/ PosLess(S.time + YELLOWTIMEOUT - car.atime, car.speed, after)
    \/ PosMore(S.time + YELLOWTIMEOUT + REDTIMEOUT - car.atime, car.speed, before)

\* the loop of CarManager.lightchange(YELLOW) over self.driving
RECURSIVE MarkLoop(_, _)
MarkLoop(S, i) ==
    IF i > Len(S.cars.driving) THEN S
    ELSE LET car == S.cars.driving[i]
         IN  IF MustStop(S, car)
             THEN MarkLoop(Log([S EXCEPT !.cars.driving[i].shouldstop = TRUE],
                               "shouldstop", car.id), i + 1)
             ELSE MarkLoop(S, i + 1)

\* the delay CarManager.lightchange(GREEN) records for a stopped car
CarDelay(S, car) ==
    LET basetime == Over((total * DistScale) - (2 * car.brakedist), car.speed)
        acctime == car.braketime
        stoptime == S.time - car.stoptime
        time == basetime + acctime + stoptime
    IN  time - Over(total * DistScale, car.speed)

\* the loop of CarManager.lightchange(GREEN): pop the stopped cars from the end
RECURSIVE ReleaseLoop(_, _)
ReleaseLoop(S, n) ==
    IF n = 0 THEN S
    ELSE LET car == S.cars.stopped[Len(S.cars.stopped)]
             S1 == [S EXCEPT !.cars.stopped = SubSeq(@, 1, Len(@) - 1),
                             !.cardelay = WelfordInsert(@, car.id, CarDelay(S, car))]
         IN  ReleaseLoop(Log(S1, "carleft", car.id), n - 1)

\* CarManager.lightchange
lightchange(S, state) ==
    IF state = "YELLOW" THEN MarkLoop(S, 1)
    ELSE IF state = "GREEN" THEN ReleaseLoop(S, Len(S.cars.stopped))
    ELSE S

\* CarManager.spawn
CarSpawned(S, car) ==
    LET S1 == [S EXCEPT !.cars.driving = Append(@, car)]
        S2 == insert(S1, Over((before * DistScale) - car.brakedist, car.speed),
                     "CarArrive", car.id)
        S3 == insert(S2, Over(total * DistScale, car.speed), "CarExit", car.id)
    IN  Log(S3, "carspawn", car.id)

\* CarManager.arrive that sets stoptime only for the car it stops
CarArrivedNoStamp(S, id) ==
    LET i == IndexOf(S.cars.driving, id)
        car == S.cars.driving[i]
        stops == car.shouldstop /\ S.light.state \in {"YELLOW", "RED"}
        timed == [car EXCEPT !.stoptime = S.time]
    IN  IF i = 0 THEN S
        ELSE IF stops
        THEN Log([S EXCEPT !.cars.driving = RemoveAt(@, i),
                           !.cars.stopped = Append(@, timed)], "carstop", id)
        ELSE Log(S, "cargo", id)

\* CarManager.arrive that stops a marked car whatever the light shows
CarArrivedAnyLight(S, id) ==
    LET i == IndexOf(S.cars.driving, id)
        car == S.cars.driving[i]
        stops == car.shouldstop
        timed == [car EXCEPT !.stoptime = S.time]
    IN  IF i = 0 THEN S
        ELSE IF stops
        THEN Log([S EXCEPT !.cars.driving = RemoveAt(@, i),
                           !.cars.stopped = Append(@, timed)], "carstop", id)
        ELSE Log([S EXCEPT !.cars.driving[i] = timed], "cargo", id)

\* CarManager.arrive that appends to stopped without self.driving.pop(i)
CarArrivedKeepsDriving(S, id) ==
    LET i == IndexOf(S.cars.driving, id)
        car == S.cars.driving[i]
        stops == car.shouldstop /\ S.light.state \in {"YELLOW", "RED"}
        timed == [car EXCEPT !.stoptime = S.time]
    IN  IF i = 0 THEN S
        ELSE IF stops
        THEN Log([S EXCEPT !.cars.driving[i] = timed,
                           !.cars.stopped = Append(@, timed)], "carstop", id)
        ELSE Log([S EXCEPT !.cars.driving[i] = timed], "cargo", id)

\* CarManager.arrive
CarArrived(S, id) ==
    LET i == IndexOf(S.cars.driving, id)
        car == S.cars.driving[i]
        stops == car.shouldstop /\ S.light.state \in {"YELLOW", "RED"}
        timed == [car EXCEPT !.stoptime = S.time]
    IN  IF i = 0 THEN S
        ELSE IF stops
        THEN Log([S EXCEPT !.cars.driving = RemoveAt(@, i),
                           !.cars.stopped = Append(@, timed)], "carstop", id)
        ELSE Log([S EXCEPT !.cars.driving[i] = timed], "cargo", id)

\* CarManager.exit that records a delay of 0 whether it finds the car or not
CarExitedAlwaysRecords(S, id) ==
    LET i == IndexOf(S.cars.driving, id)
    IN  IF i = 0
        THEN Log([S EXCEPT !.cardelay = WelfordInsert(@, id, 0)], "carleft", id)
        ELSE Log([S EXCEPT !.cars.driving = RemoveAt(@, i),
                           !.cardelay = WelfordInsert(@, id, 0)], "carleft", id)

\* CarManager.exit that records the delay without self.driving.pop(i)
CarExitedKeepsDriving(S, id) ==
    LET i == IndexOf(S.cars.driving, id)
    IN  IF i = 0 THEN S
        ELSE Log([S EXCEPT !.cardelay = WelfordInsert(@, id, 0)], "carleft", id)

\* CarManager.exit
CarExited(S, id) ==
    LET i == IndexOf(S.cars.driving, id)
    IN  IF i = 0 THEN S
        ELSE Log([S EXCEPT !.cars.driving = RemoveAt(@, i),
                           !.cardelay = WelfordInsert(@, id, 0)], "carleft", id)

\* ---------------------------------------------------------------- Light
\* PedManager.cross when the phase has room: record the delay
cross(S, ped) ==
    LET delay == S.time - ped.at - ped.atlight
    IN  Log([S EXCEPT !.peds.count = @ + 1,
                      !.peddelay = WelfordInsert(@, ped.id, delay)],
            "crossed", ped.id)

\* the capacity test of PedManager.cross off by one
HasRoomOffByOne(S) == S.peds.count <= MAXPEDS

\* PedManager.cross raises StopIteration when this is false
HasRoom(S) == S.peds.count < MAXPEDS

\* PedManager.getped(id, popped = True): the state with the pedestrian removed
\* from the first list that holds it
getped(S, id) ==
    LET i == IndexOf(S.peds.walking, id)
        j == IndexOf(S.peds.waiting, id)
    IN  IF i # 0 THEN [S EXCEPT !.peds.walking = RemoveAt(@, i)]
        ELSE IF j # 0 THEN [S EXCEPT !.peds.waiting = RemoveAt(@, j)]
        ELSE S

\* PedManager.getped: the pedestrian found; NoPed is None
NoPed == [id |-> -1]
findped(S, id) ==
    LET i == IndexOf(S.peds.walking, id)
        j == IndexOf(S.peds.waiting, id)
    IN  IF i # 0 THEN S.peds.walking[i]
        ELSE IF j # 0 THEN S.peds.waiting[j]
        ELSE NoPed

\* the loop of PedManager.deploy: i counts up to the length waiting had at
\* the start; the pedestrian is taken out of the list before cross() is tried
RECURSIVE DeployLoop(_, _, _)
DeployLoop(S, i, n) ==
    IF i >= n THEN S
    ELSE LET ped == S.peds.waiting[(i - S.peds.count) + 1]
             S1 == getped(S, ped.id)
         IN  IF HasRoom(S1) THEN DeployLoop(cross(S1, ped), i + 1, n)
             ELSE S1

\* PedManager.deploy
deploy(S) ==
    LET S0 == [S EXCEPT !.peds.count = 0]
    IN  DeployLoop(S0, 0, Len(S0.peds.waiting))

\* Light.timer that stays in GREENWAIT when the minimum green has run out
timerNeverGreen(S) ==
    CASE S.light.state = "GREENWAITPRESSED" ->
            insert(lightchange(Log([S EXCEPT !.light.state = "YELLOW"], "yellow", -1),
                               "YELLOW"),
                   YELLOWTIMEOUT, "TimerExpire", -1)
      [] S.light.state = "GREENWAIT" -> S
      [] S.light.state = "GREEN" -> S
      [] S.light.state = "YELLOW" ->
            LET S1 == Log([S EXCEPT !.light.state = "RED"], "red", -1)
                S2 == [S1 EXCEPT !.light.walkexpire = S1.time + REDTIMEOUT]
            IN  insert(deploy(S2), REDTIMEOUT, "TimerExpire", -1)
      [] S.light.state = "RED" ->
            insert(lightchange(Log([S EXCEPT !.light.state = "GREENWAIT"], "green", -1),
                               "GREEN"),
                   GREENTIMEOUT, "TimerExpire", -1)

\* Light.timer that leaves walkexpire as it was when the light turns RED
timerKeepsWalkExpire(S) ==
    CASE S.light.state = "GREENWAITPRESSED" ->
            insert(lightchange(Log([S EXCEPT !.light.state = "YELLOW"], "yellow", -1),
                               "YELLOW"),
                   YELLOWTIMEOUT, "TimerExpire", -1)
      [] S.light.state = "GREENWAIT" -> [S EXCEPT !.light.state = "GREEN"]
      [] S.light.state = "GREEN" -> S
      [] S.light.state = "YELLOW" ->
            LET S1 == Log([S EXCEPT !.light.state = "RED"], "red", -1)
            IN  insert(deploy(S1), REDTIMEOUT, "TimerExpire", -1)
      [] S.light.state = "RED" ->
            insert(lightchange(Log([S EXCEPT !.light.state = "GREENWAIT"], "green", -1),
                               "GREEN"),
                   GREENTIMEOUT, "TimerExpire", -1)

\* Light.timer that arms a timer when the minimum green has run out
timerRearmsOnGreen(S) ==
    CASE S.light.state = "GREENWAITPRESSED" ->
            insert(lightchange(Log([S EXCEPT !.light.state = "YELLOW"], "yellow", -1),
                               "YELLOW"),
                   YELLOWTIMEOUT, "TimerExpire", -1)
      [] S.light.state = "GREENWAIT" ->
            insert([S EXCEPT !.light.state = "GREEN"], GREENTIMEOUT, "TimerExpire", -1)
      [] S.light.state = "GREEN" -> S
      [] S.light.state = "YELLOW" ->
            LET S1 == Log([S EXCEPT !.light.state = "RED"], "red", -1)
                S2 == [S1 EXCEPT !.light.walkexpire = S1.time + REDTIMEOUT]
            IN  insert(deploy(S2), REDTIMEOUT, "TimerExpire", -1)
      [] S.light.state = "RED" ->
            insert(lightchange(Log([S EXCEPT !.light.state = "GREENWAIT"], "green", -1),
                               "GREEN"),
                   GREENTIMEOUT, "TimerExpire", -1)

\* Light.timer
timer(S) ==
    CASE S.light.state = "GREENWAITPRESSED" ->
            insert(lightchange(Log([S EXCEPT !.light.state = "YELLOW"], "yellow", -1),
                               "YELLOW"),
                   YELLOWTIMEOUT, "TimerExpire", -1)
      [] S.light.state = "GREENWAIT" -> [S EXCEPT !.light.state = "GREEN"]
      [] S.light.state = "GREEN" -> S
      [] S.light.state = "YELLOW" ->
            LET S1 == Log([S EXCEPT !.light.state = "RED"], "red", -1)
                S2 == [S1 EXCEPT !.light.walkexpire = S1.time + REDTIMEOUT]
            IN  insert(deploy(S2), REDTIMEOUT, "TimerExpire", -1)
      [] S.light.state = "RED" ->
            insert(lightchange(Log([S EXCEPT !.light.state = "GREENWAIT"], "green", -1),
                               "GREEN"),
                   GREENTIMEOUT, "TimerExpire", -1)

\* Light.press that arms the timer of the red phase on a press while GREEN
lightpressRedTimeout(S) ==
    CASE S.light.state = "GREENWAIT" -> [S EXCEPT !.light.state = "GREENWAITPRESSED"]
      [] S.light.state = "GREEN" ->
            insert(lightchange(Log([S EXCEPT !.light.state = "YELLOW"], "yellow", -1),
                               "YELLOW"),
                   REDTIMEOUT, "TimerExpire", -1)
      [] OTHER -> S

\* Light.press that turns a fresh green straight to yellow
lightpressSkipsWait(S) ==
    CASE S.light.state \in {"GREEN", "GREENWAIT"} ->
            insert(lightchange(Log([S EXCEPT !.light.state = "YELLOW"], "yellow", -1),
                               "YELLOW"),
                   YELLOWTIMEOUT, "TimerExpire", -1)
      [] OTHER -> S

\* Light.press
lightpress(S) ==
    CASE S.light.state = "GREENWAIT" -> [S EXCEPT !.light.state = "GREENWAITPRESSED"]
      [] S.light.state = "GREEN" ->
            insert(lightchange(Log([S EXCEPT !.light.state = "YELLOW"], "yellow", -1),
                               "YELLOW"),
                   YELLOWTIMEOUT, "TimerExpire", -1)
      [] OTHER -> S

\* ----------------------------------------------------------- PedManager
\* the result of the draw u in PedManager.press(n)
Pressed(n, u) == IF n = 0 THEN bernouli(15, 16, u) ELSE bernouli(1, n + 1, u)

\* PedManager.press
press(S, n, id, u) ==
    IF Pressed(n, u) THEN lightpress(Log(S, "pressed", id)) ELSE S

\* PedManager.spawn
PedSpawned(S, ped) ==
    LET S1 == [S EXCEPT !.peds.walking = Append(@, ped)]
        S2 == insert(S1, ped.atlight, "PedArrive", ped.id)
    IN  Log(S2, "pedspawn", ped.id)

\* the waiting branch of PedManager.arrive that appends before it presses
EnqueueAppendsFirst(S, ped, u) ==
    LET S1 == press(S, Len(S.peds.waiting) + 1, ped.id, u)
        S2 == Log([S1 EXCEPT !.peds.waiting = Append(@, ped)], "waiting", ped.id)
    IN  insert(S2, IMPATIENT, "PedImpatient", ped.id)

\* PedManager.arrive from the button press on
Enqueue(S, ped, u) ==
    LET S1 == press(S, Len(S.peds.waiting), ped.id, u)
        S2 == Log([S1 EXCEPT !.peds.waiting = Append(@, ped)], "waiting", ped.id)
    IN  insert(S2, IMPATIENT, "PedImpatient", ped.id)

\* PedManager.arrive that sends the pedestrian across whatever the light shows
PedArrivedAnyLight(S, id, u) ==
    LET ped == findped(S, id)
        S1 == getped(S, id)
    IN  IF HasRoom(S1) THEN cross(S1, ped) ELSE Enqueue(S1, ped, u)

\* PedManager.arrive
PedArrived(S, id, u) ==
    LET ped == findped(S, id)
        S1 == getped(S, id)
    IN  IF S1.light.state = "RED" /\ ped.walktime <= S1.light.walkexpire - S1.time
        THEN IF HasRoom(S1) THEN cross(S1, ped) ELSE Enqueue(S1, ped, u)
        ELSE IF S1.light.state = "RED"
        THEN Enqueue(Log(S1, "late", id), ped, u)
        ELSE Enqueue(S1, ped, u)

\* PedManager.impatient that presses but schedules no further event
impatientOnce(S, id, u) ==
    IF findped(S, id) # NoPed
    THEN press(Log(S, "impatient", id), 0, id, u)
    ELSE S

\* PedManager.impatient that presses with the length of the waiting queue
impatientCountsQueue(S, id, u) ==
    IF findped(S, id) # NoPed
    THEN insert(press(Log(S, "impatient", id), Len(S.peds.waiting), id, u),
                IMPATIENT, "PedImpatient", id)
    ELSE S

\* PedManager.impatient
impatient(S, id, u) ==
    IF findped(S, id) # NoPed
    THEN insert(press(Log(S, "impatient", id), 0, id, u),
                IMPATIENT, "PedImpatient", id)
    ELSE S

\* ------------------------------------------------------- random sources
\* The values the random sources may yield.  exponential() yields any gap
\* > 0, uniform(VKA, VKB) and uniform(VJA, VJB) any speed strictly between
\* the bounds, random() any u in (0,1).
PedGaps == {2 * Tick, 10 * Tick}
PedSpeeds == {s \in {32, 40} : VKA < s /\ s < VKB}
CarGaps == {15 * Tick, 97 * Tick}
CarSpeeds == {s \in {400, 500} : VJA3 < 3 * s /\ 3 * s < VJB3}
ButtonDraws == {u \in {30, 250, 990} : 0 < u /\ u < Mille}

CrowdPedGaps == {(3 * Tick) \div 4}
CrowdPedSpeeds == {s \in {40} : VKA < s /\ s < VKB}
CrowdCarGaps == {10 * Tick}
CrowdCarSpeeds == {s \in {400} : VJA3 < 3 * s /\ 3 * s < VJB3}

\* ----------------------------------------------------------- Simulation
\* Simulation.__init__ up to the initial arrivals
NewSim(n, p, a, b) ==
    [time |-> 0, queue |-> <<>>, maxn |-> n, npeds |-> 0, ncars |-> 0,
     light |-> [state |-> "GREEN", walkexpire |-> 0],
     peds |-> [walking |-> <<>>, waiting |-> <<>>, count |-> 0],
     cars |-> [driving |-> <<>>, stopped |-> <<>>],
     peddelay |-> <<>>, cardelay |-> <<>>,
     eventcount |-> 0, totalevents |-> 0,
     pedrandom |-> p, autorandom |-> a, buttonrandom |-> b,
     log |-> <<>>]

\* Simulation.__init__: the four initial arrivals
Seeded(S) ==
    {insert(insert(insert(insert(S, p1, "PedSpawn", -1), p2, "PedSpawn", -1),
                   c1, "CarSpawn", -1), c2, "CarSpawn", -1) :
        <<p1, p2, c1, c2>> \in S.pedrandom.gaps \X S.pedrandom.gaps
                               \X S.autorandom.gaps \X S.autorandom.gaps}

\* sim = Simulation(ARG_N, ...) of the main program, N = n
InitWith(n, p, a, b) ==
    /\ sim \in Seeded(NewSim(n, p, a, b))
    /\ pc = "running"
    /\ fails = 0
    /\ draw = 0
    /\ acc = [w |-> Welford, xs |-> <<>>]

Init ==
    \E n \in 1..NSmall :
        InitWith(n, [gaps |-> PedGaps, speeds |-> PedSpeeds],
                 [gaps |-> CarGaps, speeds |-> CarSpeeds], ButtonDraws)

InitCrowd ==
    InitWith(NCrowd, [gaps |-> CrowdPedGaps, speeds |-> CrowdPedSpeeds],
             [gaps |-> CrowdCarGaps, speeds |-> CrowdCarSpeeds], ButtonDraws)

\* the event Simulation.next pops
event == sim.queue[1]

\* Simulation.next up to the dispatch on the event's type
Popped ==
    [sim EXCEPT !.queue = pop(@), !.time = event.at, !.eventcount = @ + 1,
                !.log = <<>>]

\* Simulation.start is in its loop and the next event is of this type
Dispatching(type) ==
    /\ pc = "running"
    /\ sim.queue # <<>>
    /\ event.type = type

\* the handler made a button draw and it failed
Missed(S) ==
    /\ \E k \in 1..Len(S.log) : S.log[k][1] \in {"waiting", "impatient"}
    /\ ~\E k \in 1..Len(S.log) : S.log[k][1] = "pressed"

\* the handler made a button draw
Drew(S) == \E k \in 1..Len(S.log) : S.log[k][1] \in {"waiting", "impatient"}

\* the state a handler that was given the button draw u leaves; at most
\* MaxFail button draws fail in a run
CommitDrawn(S, u) ==
    /\ fails' = IF Missed(S) THEN fails + 1 ELSE fails
    /\ fails' <= MaxFail
    /\ draw' = IF Drew(S) THEN u ELSE 0
    /\ sim' = S
    /\ pc' = pc
    /\ acc' = acc

\* the state a handler that makes no button draw leaves
Commit(S) == CommitDrawn(S, 0)

TimerExpire ==
    /\ Dispatching("TimerExpire")
    /\ Commit(timer(Popped))

\* the PedSpawn branch of Simulation.next with npeds <= maxn as its test
PedSpawnOffByOne ==
    /\ Dispatching("PedSpawn")
    /\ IF sim.npeds <= sim.maxn
       THEN \E speed \in sim.pedrandom.speeds, gap \in sim.pedrandom.gaps :
               LET S1 == [Popped EXCEPT !.npeds = @ + 1]
                   S2 == PedSpawned(S1, Ped(S1.npeds, S1.time, speed))
               IN  Commit(insert(S2, gap, "PedSpawn", -1))
       ELSE Commit(Popped)

PedSpawn ==
    /\ Dispatching("PedSpawn")
    /\ IF sim.npeds < sim.maxn
       THEN \E speed \in sim.pedrandom.speeds, gap \in sim.pedrandom.gaps :
               LET S1 == [Popped EXCEPT !.npeds = @ + 1]
                   S2 == PedSpawned(S1, Ped(S1.npeds, S1.time, speed))
               IN  Commit(insert(S2, gap, "PedSpawn", -1))
       ELSE Commit(Popped)

PedArrive ==
    /\ Dispatching("PedArrive")
    /\ \E u \in sim.buttonrandom : CommitDrawn(PedArrived(Popped, event.id, u), u)

PedImpatient ==
    /\ Dispatching("PedImpatient")
    /\ \E u \in sim.buttonrandom : CommitDrawn(impatient(Popped, event.id, u), u)

CarSpawn ==
    /\ Dispatching("CarSpawn")
    /\ IF sim.ncars < sim.maxn
       THEN \E speed \in sim.autorandom.speeds, gap \in sim.autorandom.gaps :
               LET S1 == [Popped EXCEPT !.ncars = @ + 1]
                   S2 == CarSpawned(S1, Car(S1.ncars, S1.time, speed))
               IN  Commit(insert(S2, gap, "CarSpawn", -1))
       ELSE Commit(Popped)

CarArrive ==
    /\ Dispatching("CarArrive")
    /\ Commit(CarArrived(Popped, event.id))

CarExit ==
    /\ Dispatching("CarExit")
    /\ Commit(CarExited(Popped, event.id))

\* Simulation.start that leaves its loop with one event still queued
FinishEarly ==
    /\ pc = "running"
    /\ Len(sim.queue) <= 1
    /\ pc' = "done"
    /\ UNCHANGED <<sim, fails, draw, acc>>

\* Simulation.start: pop() raises IndexError on the empty queue, the loop ends
Finish ==
    /\ pc = "running"
    /\ sim.queue = <<>>
    /\ pc' = "done"
    /\ UNCHANGED <<sim, fails, draw, acc>>

Next ==
    \/ TimerExpire
    \/ PedSpawn
    \/ PedArrive
    \/ PedImpatient
    \/ CarSpawn
    \/ CarArrive
    \/ CarExit
    \/ Finish

Spec == Init /\ [][Next]_vars

SpecCrowd == InitCrowd /\ [][Next]_vars

\* ------------------------------------------------------ Welford alone
\* the numbers inserted in the runs of SpecWelford
SampleValues == {0, 1, 3, 10}

\* a Welford object as constructed, beside a simulation that is not started
InitWelford ==
    /\ acc = [w |-> Welford, xs |-> <<>>]
    /\ sim = NewSim(0, [gaps |-> {}, speeds |-> {}],
                    [gaps |-> {}, speeds |-> {}], {})
    /\ pc = "idle"
    /\ fails = 0
    /\ draw = 0

\* a call of Welford.insert
InsertSample ==
    /\ Len(acc.xs) < MaxSamples
    /\ \E x \in SampleValues :
          acc' = [w |-> Winsert(acc.w, x), xs |-> Append(acc.xs, x)]
    /\ UNCHANGED <<sim, pc, fails, draw>>

NextWelford == InsertSample

SpecWelford == InitWelford /\ [][NextWelford]_vars

\* the runs of Spec and the runs of SpecCrowd
SpecAll == (Init \/ InitCrowd) /\ [][Next]_vars

\* the run with the scheduler never halting while an event can be dispatched
\* The loop of start() keeps running: weak fairness of Next, with
\* ENABLED <<Next>>_vars written out (Next can take a step exactly as long as
\* start() has not returned), and weak fairness of its return.
LiveSpec ==
    /\ Spec
    /\ []<>(pc = "done") \/ []<><<Next>>_vars
    /\ WF_vars(Finish)

\* ------------------------------------------------------------- vocabulary
Logged(S, tag) == \E k \in 1..Len(S.log) : S.log[k][1] = tag

LoggedFor(S, tag, id) == \E k \in 1..Len(S.log) : S.log[k] = <<tag, id>>

\* the step dispatches an event of this type
Dispatch(type) == Dispatching(type) /\ sim' # sim

Count(list, id) == Cardinality({i \in 1..Len(list) : list[i].id = id})

Samples(w, id) == Count(w, id)

\* ------------------------------------------------------------------ C1
TimerNext ==
    [s \in {"GREEN", "GREENWAIT", "GREENWAITPRESSED", "YELLOW", "RED"} |->
        CASE s = "GREENWAIT" -> "GREEN"
          [] s = "GREENWAITPRESSED" -> "YELLOW"
          [] s = "YELLOW" -> "RED"
          [] s = "RED" -> "GREENWAIT"
          [] s = "GREEN" -> "GREEN"]

PressNext ==
    [s \in {"GREEN", "GREENWAIT", "GREENWAITPRESSED", "YELLOW", "RED"} |->
        CASE s = "GREEN" -> "YELLOW"
          [] s = "GREENWAIT" -> "GREENWAITPRESSED"
          [] OTHER -> s]

\* C1: every change of the light's state is GREEN -press-> YELLOW,
\* GREENWAIT -press-> GREENWAITPRESSED, GREENWAIT -timer-> GREEN,
\* GREENWAITPRESSED -timer-> YELLOW, YELLOW -timer-> RED or
\* RED -timer-> GREENWAIT; a press in any other state and a timer expiry
\* while GREEN leave the state as it is, and a step that is neither a press
\* nor a timer expiry never changes it.
C1_LightFollowsTable ==
    [][ IF Dispatch("TimerExpire")
        THEN sim'.light.state = TimerNext[sim.light.state]
        ELSE IF sim' # sim /\ Logged(sim', "pressed")
        THEN sim'.light.state = PressNext[sim.light.state]
        ELSE sim'.light.state = sim.light.state ]_vars

C1_Witness ==
    /\ sim.light.state = "GREENWAITPRESSED"
    /\ Logged(sim, "pressed")
    /\ Len(sim.peddelay) > 0

\* ------------------------------------------------------------------ C2
\* C2: the clock never decreases from one dispatch to the next: the event
\* popped is never earlier than the clock the previous dispatch set.
C2_ClockMonotone == [][sim'.time >= sim.time]_vars

\* an equal-time event is pending right after a dispatch
C2_Witness ==
    /\ sim.eventcount >= 2
    /\ sim.queue # <<>>
    /\ event.at = sim.time

\* ------------------------------------------------------------------ C3
Crossed(id) == Samples(sim.peddelay, id) > 0

\* C3: after every handler, a spawned pedestrian that has no delay sample is
\* in exactly one of walking and waiting, and one that has crossed is in
\* neither.
C3_PedInOneList ==
    \A id \in 1..sim.npeds :
        Count(sim.peds.walking, id) + Count(sim.peds.waiting, id)
            = IF Crossed(id) THEN 0 ELSE 1

\* ------------------------------------------------------------------ C4
\* the step is Light.timer entering RED, which runs deploy()
RedEntry == Dispatch("TimerExpire") /\ sim.light.state = "YELLOW"

NewSamples == SubSeq(sim'.peddelay, Len(sim.peddelay) + 1, Len(sim'.peddelay))

\* C4: when deploy() runs with more than MAXPEDS pedestrians waiting, the
\* first MAXPEDS of them cross, in order, and the others are the waiting
\* queue afterwards, in their order.
C4_DeployKeepsExcess ==
    [][ (RedEntry /\ Len(sim.peds.waiting) > MAXPEDS) =>
          /\ Len(NewSamples) = MAXPEDS
          /\ \A k \in 1..MAXPEDS : NewSamples[k].id = sim.peds.waiting[k].id
          /\ sim'.peds.waiting
                = SubSeq(sim.peds.waiting, MAXPEDS + 1, Len(sim.peds.waiting)) ]_vars

\* ------------------------------------------------------------------ C5
\* C5: the per-phase counter never exceeds MAXPEDS, deploy() on RED entry
\* restarts it at the number of samples it records, and every other step
\* adds to it exactly the number of pedestrian samples the step records; so
\* at most MAXPEDS samples are recorded from one RED entry to the next.
C5_PhaseCapacity ==
    /\ [](sim.peds.count <= MAXPEDS)
    /\ [][ IF RedEntry
           THEN sim'.peds.count = Len(NewSamples)
           ELSE sim'.peds.count = sim.peds.count + Len(NewSamples) ]_vars

\* a pedestrian arrives under RED in time to cross, the phase is full, and
\* it is put in the waiting queue
C5_Witness ==
    /\ sim.light.state = "RED"
    /\ sim.peds.count = MAXPEDS
    /\ Logged(sim, "waiting")
    /\ ~Logged(sim, "late")

\* ------------------------------------------------------------------ C6
\* C6: when the run has ended, every spawned pedestrian has exactly one
\* delay sample and none is in the waiting list.
C6_EveryPedCrossedOnce ==
    pc = "done" =>
        /\ \A id \in 1..sim.npeds : Samples(sim.peddelay, id) = 1
        /\ Len(sim.peddelay) = sim.npeds
        /\ sim.peds.waiting = <<>>

\* ------------------------------------------------------------------ C7
\* the step is Light.timer leaving RED, which releases the stopped cars
GreenEntry == Dispatch("TimerExpire") /\ sim.light.state = "RED"

NewCarSamples == SubSeq(sim'.cardelay, Len(sim.cardelay) + 1, Len(sim'.cardelay))

\* C7: no car has two delay samples and no sample is negative; a sample is
\* recorded only by the car's own Exit event, with value 0, or by the light
\* change to green, for a car that was stopped; and when the run has ended
\* every spawned car has exactly one sample.
C7_EveryCarRecordedOnce ==
    /\ [](/\ \A id \in 1..sim.ncars : Samples(sim.cardelay, id) <= 1
          /\ \A k \in 1..Len(sim.cardelay) : sim.cardelay[k].x >= 0
          /\ pc = "done" =>
                \A id \in 1..sim.ncars : Samples(sim.cardelay, id) = 1)
    /\ [][ \A k \in 1..Len(NewCarSamples) :
              \/ /\ Dispatch("CarExit")
                 /\ NewCarSamples[k] = [id |-> event.id, x |-> 0]
                 /\ Count(sim.cars.stopped, event.id) = 0
              \/ /\ GreenEntry
                 /\ Count(sim.cars.stopped, NewCarSamples[k].id) = 1 ]_vars

\* the run has ended with a car that drove through and a car that was
\* stopped for some time
C7_Witness ==
    /\ pc = "done"
    /\ \E k \in 1..Len(sim.cardelay) : sim.cardelay[k].x > 0
    /\ sim.ncars >= 2
    /\ \E k \in 1..(Len(sim.cardelay) - 1) : sim.cardelay[k].x = 0

\* ------------------------------------------------------------------ C8
\* C8: after every handler, a spawned car that has no delay sample is in
\* exactly one of driving and stopped, and one that has its sample is in
\* neither.
C8_CarInOneList ==
    \A id \in 1..sim.ncars :
        Count(sim.cars.driving, id) + Count(sim.cars.stopped, id)
            = IF Samples(sim.cardelay, id) > 0 THEN 0 ELSE 1

\* a car is stopped, another is driving and a third has left
C8_Witness ==
    /\ sim.cars.stopped # <<>>
    /\ sim.cars.driving # <<>>

\* ------------------------------------------------------------------ C9
\* C9: start() has returned only if the event queue is empty, and it does
\* return, provided at most MaxFail button draws fail.
C9_StopsWhenDrained ==
    /\ [](pc = "done" => sim.queue = <<>>)
    /\ <>(pc = "done")

\* the run has ended after a pedestrian pressed again out of impatience
C9_Witness ==
    /\ pc = "done"
    /\ fails > 0
    /\ sim.eventcount > sim.maxn * 6 + 4

\* ----------------------------------------------------------------- C10
AllPedIds ==
    Ids(sim.peds.walking) \cup Ids(sim.peds.waiting) \cup Ids(sim.peddelay)

AllCarIds ==
    Ids(sim.cars.driving) \cup Ids(sim.cars.stopped) \cup Ids(sim.cardelay)

\* C10: neither population ever exceeds N; a spawn event dispatched when
\* its population is N creates nothing and schedules nothing; a spawn event
\* dispatched before that creates the entity with the next id; and when the
\* queue has drained both populations are exactly N.
C10_SpawnsExactlyN ==
    /\ [](/\ sim.npeds <= sim.maxn
          /\ sim.ncars <= sim.maxn
          /\ AllPedIds \subseteq 1..sim.npeds
          /\ AllCarIds = 1..sim.ncars
          /\ pc = "done" => sim.npeds = sim.maxn /\ sim.ncars = sim.maxn)
    /\ [][ /\ Dispatch("PedSpawn") =>
                IF sim.npeds >= sim.maxn
                THEN /\ sim'.npeds = sim.npeds
                     /\ sim'.peds = sim.peds
                     /\ sim'.totalevents = sim.totalevents
                ELSE /\ sim'.npeds = sim.npeds + 1
                     /\ Count(sim'.peds.walking, sim'.npeds) = 1
                     /\ Count(sim.peds.walking, sim'.npeds) = 0
           /\ Dispatch("CarSpawn") =>
                IF sim.ncars >= sim.maxn
                THEN /\ sim'.ncars = sim.ncars
                     /\ sim'.cars = sim.cars
                     /\ sim'.totalevents = sim.totalevents
                ELSE /\ sim'.ncars = sim.ncars + 1
                     /\ Count(sim'.cars.driving, sim'.ncars) = 1
                     /\ Count(sim.cars.driving, sim'.ncars) = 0
           /\ ~Dispatch("PedSpawn") => sim'.npeds = sim.npeds
           /\ ~Dispatch("CarSpawn") => sim'.ncars = sim.ncars ]_vars

\* the queue has drained after spawn events found their population full
C10_Witness ==
    /\ pc = "done"
    /\ sim.npeds = sim.maxn
    /\ sim.ncars = sim.maxn
    /\ sim.maxn >= 2
    /\ sim.eventcount = sim.totalevents

\* ----------------------------------------------------------------- C11
\* the places in the event queue of the pending events of this type
Pending(S, type) == {k \in 1..Len(S.queue) : S.queue[k].type = type}

\* exactly one TimerExpire event is pending, and it is due at this time
OneTimerAt(S, at) ==
    /\ Cardinality(Pending(S, "TimerExpire")) = 1
    /\ \A k \in Pending(S, "TimerExpire") : S.queue[k].at = at

\* the step is a handler in which a press succeeds while the light is GREEN
GreenPress == sim' # sim /\ sim.light.state = "GREEN" /\ Logged(sim', "pressed")

Min(a, b) == IF a < b THEN a ELSE b

\* C11: a successful press while GREEN sets the light YELLOW and leaves
\* exactly one pending TimerExpire, due YELLOWTIMEOUT after the clock; the
\* timer expiry in YELLOW sets the light RED, runs deploy() once (the phase
\* counter restarts and equals the number of samples recorded, which are
\* those of the first waiting pedestrians, one each, in order) and leaves
\* exactly one pending TimerExpire, due REDTIMEOUT after the clock.
C11_PressToRed ==
    [][ /\ GreenPress =>
              /\ sim'.light.state = "YELLOW"
              /\ OneTimerAt(sim', sim'.time + YELLOWTIMEOUT)
        /\ RedEntry =>
              /\ sim'.light.state = "RED"
              /\ sim'.time = event.at
              /\ OneTimerAt(sim', sim'.time + REDTIMEOUT)
              /\ sim'.peds.count = Len(NewSamples)
              /\ Len(NewSamples) = Min(Len(sim.peds.waiting), MAXPEDS)
              /\ \A k \in 1..Len(NewSamples) :
                    NewSamples[k].id = sim.peds.waiting[k].id
              /\ Cardinality({k \in 1..Len(sim'.log) : sim'.log[k][1] = "red"}) = 1
      ]_vars

C11_Witness ==
    /\ sim.light.state = "RED"
    /\ Logged(sim, "red")
    /\ Logged(sim, "crossed")
    /\ OneTimerAt(sim, sim.time + REDTIMEOUT)

\* ----------------------------------------------------------------- C12
\* C12: in every state the program reaches, no TimerExpire event is pending
\* when the light is GREEN and exactly one is pending when it is GREENWAIT,
\* GREENWAITPRESSED, YELLOW or RED; so the event to dispatch next is never a
\* TimerExpire while the light is GREEN.
C12_OneTimerUnlessGreen ==
    /\ Cardinality(Pending(sim, "TimerExpire")) =
          (IF sim.light.state = "GREEN" THEN 0 ELSE 1)
    /\ ~(Dispatching("TimerExpire") /\ sim.light.state = "GREEN")

C12_Witness ==
    /\ sim.light.state = "GREEN"
    /\ Len(sim.peddelay) > 0
    /\ Len(sim.queue) > 0
    /\ Pending(sim, "TimerExpire") = {}

\* ----------------------------------------------------------------- C13
\* C13: cars are in stopped only while the light is YELLOW or RED; every
\* step but the timer expiry in RED keeps the cars that are in stopped, in
\* their order (a car's own Exit too), and the timer expiry in RED empties
\* stopped and records exactly one delay sample for each car that was there.
C13_StoppedUntilGreen ==
    [][ /\ sim.cars.stopped # <<>> => sim.light.state \in {"YELLOW", "RED"}
        /\ sim'.cars.stopped # <<>> => sim'.light.state \in {"YELLOW", "RED"}
        /\ IF GreenEntry
           THEN /\ sim'.cars.stopped = <<>>
                /\ Len(NewCarSamples) = Len(sim.cars.stopped)
                /\ \A k \in 1..Len(sim.cars.stopped) :
                      Count(NewCarSamples, sim.cars.stopped[k].id) = 1
           ELSE /\ Len(sim'.cars.stopped) >= Len(sim.cars.stopped)
                /\ SubSeq(sim'.cars.stopped, 1, Len(sim.cars.stopped))
                      = sim.cars.stopped
      ]_vars

C13_Witness ==
    /\ sim.cars.stopped # <<>>
    /\ sim.light.state = "RED"
    /\ ~Logged(sim, "carstop")
    /\ sim.log # <<>>

\* ----------------------------------------------------------------- C14
RECURSIVE Sum(_)
Sum(xs) == IF xs = <<>> THEN 0 ELSE Head(xs) + Sum(Tail(xs))

\* the sum of the squared deviations of the samples from mu
RECURSIVE SumSqDev(_, _)
SumSqDev(xs, mu) ==
    IF xs = <<>> THEN RInt(0)
    ELSE LET d == RSub(RInt(Head(xs)), mu)
         IN  RAdd(RMul(d, d), SumSqDev(Tail(xs), mu))

ArithmeticMean(xs) == Rat(Sum(xs), Len(xs))

PopulationVariance(xs) ==
    RDiv(SumSqDev(xs, ArithmeticMean(xs)), RInt(Len(xs)))

\* C14: after any sequence of inserts, i is the number of samples inserted,
\* mean() is their arithmetic mean and variance() is their population
\* variance; variance() is 0 when no sample or one sample was inserted.
C14_WelfordMoments ==
    /\ acc.w.i = Len(acc.xs)
    /\ acc.xs # <<>> => mean(acc.w) = ArithmeticMean(acc.xs)
    /\ acc.xs # <<>> => variance(acc.w) = PopulationVariance(acc.xs)
    /\ Len(acc.xs) <= 1 => variance(acc.w) = RInt(0)

C14_Witness ==
    /\ Len(acc.xs) >= 3
    /\ variance(acc.w) # RInt(0)
    /\ mean(acc.w)[2] # 1

\* ----------------------------------------------------------------- C15
\* the pending PedImpatient events of this pedestrian
ImpatientOf(S, id) == {k \in Pending(S, "PedImpatient") : S.queue[k].id = id}

\* C15: PedManager.arrive takes the pedestrian out of walking.  When the
\* light is RED, the pedestrian's walk time fits in what is left of the walk
\* phase and fewer than MAXPEDS have crossed in the phase, one delay sample
\* is recorded and nothing else happens: no button draw, no press, waiting
\* and the light as they were, no event scheduled.  In every other case a
\* button draw is made and succeeds exactly as PedManager.press decides it
\* for n = the length of waiting before the append, the pedestrian is
\* appended at the tail of waiting, no sample is recorded and exactly one
\* PedImpatient event is scheduled, for this pedestrian, IMPATIENT later.
C15_ArriveCrossesOrWaits ==
    [][ Dispatch("PedArrive") =>
        LET id == event.id
            now == event.at
            ped == findped(sim, id)
            crosses == /\ sim.light.state = "RED"
                       /\ ped.walktime <= sim.light.walkexpire - now
                       /\ sim.peds.count < MAXPEDS
        IN  /\ Count(sim.peds.walking, id) = 1
            /\ Count(sim'.peds.walking, id) = 0
            /\ Len(sim'.peds.walking) = Len(sim.peds.walking) - 1
            /\ IF crosses
               THEN /\ Len(NewSamples) = 1
                    /\ NewSamples[1].id = id
                    /\ sim'.peds.waiting = sim.peds.waiting
                    /\ sim'.light = sim.light
                    /\ sim'.queue = pop(sim.queue)
                    /\ sim'.totalevents = sim.totalevents
                    /\ draw' = 0
                    /\ ~Logged(sim', "pressed")
               ELSE /\ NewSamples = <<>>
                    /\ draw' \in sim.buttonrandom
                    /\ Logged(sim', "pressed")
                          <=> Pressed(Len(sim.peds.waiting), draw')
                    /\ sim'.peds.waiting = Append(sim.peds.waiting, ped)
                    /\ Cardinality(Pending(sim', "PedImpatient"))
                          = Cardinality(Pending(sim, "PedImpatient")) + 1
                    /\ Cardinality(ImpatientOf(sim', id)) = 1
                    /\ \A k \in ImpatientOf(sim', id) :
                          sim'.queue[k].at = now + IMPATIENT
      ]_vars

\* a pedestrian has just arrived under RED and crossed at once
C15_Witness ==
    /\ sim.light.state = "RED"
    /\ Logged(sim, "crossed")
    /\ ~Logged(sim, "red")
    /\ sim.peds.count >= 1

\* ----------------------------------------------------------------- C16
\* C16: the timer expiry in YELLOW sets walkexpire to the clock plus
\* REDTIMEOUT, and in every RED state walkexpire is the time of the one
\* pending TimerExpire event and is not earlier than the clock.
C16_WalkExpireIsRedTimer ==
    [][ /\ RedEntry => sim'.light.walkexpire = sim'.time + REDTIMEOUT
        /\ sim'.light.state = "RED" =>
              /\ OneTimerAt(sim', sim'.light.walkexpire)
              /\ sim'.light.walkexpire >= sim'.time
      ]_vars

C16_Witness ==
    /\ sim.light.state = "RED"
    /\ sim.time > sim.light.walkexpire - REDTIMEOUT
    /\ sim.time < sim.light.walkexpire
    /\ OneTimerAt(sim, sim.light.walkexpire)

\* ----------------------------------------------------------------- C17
\* C17: the PedImpatient event of a pedestrian who is in neither list does
\* nothing: no button draw, no press, and the light, the lists, both
\* accumulators and the set of scheduled events stay as they are.  For a
\* pedestrian in waiting one button draw is made and succeeds exactly as
\* PedManager.press decides it for n = 0, and exactly one new PedImpatient
\* event is scheduled, for this pedestrian, IMPATIENT later.
C17_ImpatientRepeats ==
    [][ Dispatch("PedImpatient") =>
        LET id == event.id
            now == event.at
        IN  /\ (Count(sim.peds.waiting, id) = 0 /\ Count(sim.peds.walking, id) = 0) =>
                  /\ sim' = [sim EXCEPT !.queue = pop(@), !.time = now,
                                        !.eventcount = @ + 1, !.log = <<>>]
                  /\ draw' = 0
            /\ Count(sim.peds.waiting, id) > 0 =>
                  /\ draw' \in sim.buttonrandom
                  /\ Logged(sim', "pressed") <=> Pressed(0, draw')
                  /\ sim'.peds = sim.peds
                  /\ sim'.peddelay = sim.peddelay
                  /\ Cardinality(Pending(sim', "PedImpatient"))
                        = Cardinality(Pending(sim, "PedImpatient"))
                  /\ Cardinality(ImpatientOf(sim', id)) = 1
                  /\ \A k \in ImpatientOf(sim', id) :
                        sim'.queue[k].at = now + IMPATIENT
      ]_vars

\* a pedestrian who waited a minute has pressed again and the light turns
C17_Witness ==
    /\ Logged(sim, "impatient")
    /\ Logged(sim, "pressed")
    /\ sim.light.state = "YELLOW"
    /\ \E k \in 1..Len(sim.peds.waiting) :
          Cardinality(ImpatientOf(sim, sim.peds.waiting[k].id)) = 1

\* ----------------------------------------------------------------- C18
\* what Simulation.next changes before it calls a handler, and nothing else
OnlyPopped ==
    sim' = [sim EXCEPT !.queue = pop(@), !.time = event.at,
                       !.eventcount = @ + 1, !.log = <<>>]

\* C18: the CarExit event of a car that is not in driving changes nothing;
\* the CarExit event of a car in driving removes it from driving and
\* records exactly one delay sample, of value 0, for it, and leaves stopped
\* and the scheduled events as they are.
C18_ExitRecordsZero ==
    [][ Dispatch("CarExit") =>
        LET id == event.id
        IN  IF Count(sim.cars.driving, id) = 0
            THEN OnlyPopped
            ELSE /\ Count(sim'.cars.driving, id) = 0
                 /\ Len(sim'.cars.driving) = Len(sim.cars.driving) - 1
                 /\ \A k \in 1..Len(sim'.cars.driving) :
                       Count(sim.cars.driving, sim'.cars.driving[k].id) = 1
                 /\ NewCarSamples = <<[id |-> id, x |-> 0]>>
                 /\ sim'.cars.stopped = sim.cars.stopped
                 /\ sim'.queue = pop(sim.queue)
                 /\ sim'.totalevents = sim.totalevents
      ]_vars

\* a car that was released by the green light has had its Exit event
C18_Witness ==
    \E k \in 1..Len(sim.cardelay) :
        /\ sim.cardelay[k].x > 0
        /\ \A e \in 1..Len(sim.queue) : sim.queue[e].id # sim.cardelay[k].id
                                          \/ sim.queue[e].type \notin {"CarArrive", "CarExit"}
        /\ Samples(sim.cardelay, sim.cardelay[k].id) = 1

\* ----------------------------------------------------------------- C19
\* C19: the CarArrive event of a car in driving moves it to the tail of
\* stopped exactly when its should-stop flag is set and the light is YELLOW
\* or RED, and otherwise leaves it where it is in driving; either way the
\* car's stoptime becomes the clock and nothing else about it changes, no
\* sample is recorded and no event is scheduled.  For a car that is not in
\* driving the event changes nothing.
C19_ArriveStopsMarkedOnRed ==
    [][ Dispatch("CarArrive") =>
        LET id == event.id
            i == IndexOf(sim.cars.driving, id)
            car == sim.cars.driving[i]
            timed == [car EXCEPT !.stoptime = event.at]
        IN  IF Count(sim.cars.driving, id) = 0
            THEN OnlyPopped
            ELSE /\ IF car.shouldstop /\ sim.light.state \in {"YELLOW", "RED"}
                    THEN /\ sim'.cars.driving = RemoveAt(sim.cars.driving, i)
                         /\ sim'.cars.stopped = Append(sim.cars.stopped, timed)
                    ELSE /\ sim'.cars.driving = [sim.cars.driving EXCEPT ![i] = timed]
                         /\ sim'.cars.stopped = sim.cars.stopped
                 /\ sim'.cardelay = sim.cardelay
                 /\ sim'.light = sim.light
                 /\ sim'.queue = pop(sim.queue)
                 /\ sim'.totalevents = sim.totalevents
      ]_vars

\* a marked car has reached the crosswalk under a green light and drives on
C19_Witness ==
    /\ Logged(sim, "cargo")
    /\ sim.light.state \in {"GREENWAIT", "GREENWAITPRESSED", "GREEN"}
    /\ \E k \in 1..Len(sim.cars.driving) :
          /\ sim.cars.driving[k].shouldstop
          /\ sim.cars.driving[k].stoptime = sim.time
          /\ LoggedFor(sim, "cargo", sim.cars.driving[k].id)

\* ----------------------------------------------------------------- C20
\* the step turns the light YELLOW
YellowEntry ==
    sim' # sim /\ sim.light.state # "YELLOW" /\ sim'.light.state = "YELLOW"

\* speed multiplied by an elapsed time is less than (more than) a distance
\* in feet
ProjectedLess(elapsed, speed, feet) == speed * elapsed < feet * SpeedScale * Tick
ProjectedMore(elapsed, speed, feet) == speed * elapsed > feet * SpeedScale * Tick

\* the car's projected position at the end of the yellow is short of the
\* after-crosswalk distance, or at the end of the red is beyond the
\* before-crosswalk distance
ProjectedToStop(now, car) ==
    \/ ProjectedLess(now + YELLOWTIMEOUT - car.atime, car.speed, after)
    \/ ProjectedMore(now + YELLOWTIMEOUT + REDTIMEOUT - car.atime, car.speed, before)

\* C20: when the light turns YELLOW every car in driving stays in its place
\* in driving and has its should-stop flag set exactly when it was set
\* before or ProjectedToStop holds of it (so a car for which neither bound
\* holds is left as it was), nothing else about a car changes, and stopped
\* is as it was.
C20_MarksByProjection ==
    [][ YellowEntry =>
        /\ Len(sim'.cars.driving) = Len(sim.cars.driving)
        /\ \A k \in 1..Len(sim.cars.driving) :
              sim'.cars.driving[k] =
                 [sim.cars.driving[k] EXCEPT !.shouldstop =
                     @ \/ ProjectedToStop(sim'.time, sim.cars.driving[k])]
        /\ sim'.cars.stopped = sim.cars.stopped
      ]_vars

\* the light has just turned YELLOW and a car that will be past the
\* crosswalk when the yellow ends has been marked
C20_Witness ==
    /\ sim.light.state = "YELLOW"
    /\ \E k \in 1..Len(sim.cars.driving) :
          LET car == sim.cars.driving[k]
          IN  /\ LoggedFor(sim, "shouldstop", car.id)
              /\ car.shouldstop
              /\ ~ProjectedLess(sim.time + YELLOWTIMEOUT - car.atime, car.speed, after)

\* ----------------------------------------------------------------- C21
\* C21: a pedestrian delay sample is recorded only by a handler that leaves
\* the light RED, and that handler is a PedArrive dispatched while the light
\* is RED or the timer expiry in YELLOW; so no pedestrian crosses while the
\* light is GREEN, GREENWAIT, GREENWAITPRESSED or YELLOW.
C21_CrossOnlyOnRed ==
    [][ NewSamples # <<>> =>
          /\ sim'.light.state = "RED"
          /\ \/ Dispatch("PedArrive") /\ sim.light.state = "RED"
             \/ RedEntry
      ]_vars

\* both ways of crossing have been taken: a pedestrian who waited for the
\* red and a pedestrian who arrived during it
C21_Witness ==
    /\ sim.light.state = "RED"
    /\ \E k \in 1..Len(sim.peddelay) : sim.peddelay[k].x > 0
    /\ \E k \in 1..Len(sim.peddelay) :
          sim.peddelay[k].x = 0 /\ LoggedFor(sim, "crossed", sim.peddelay[k].id)

\* ----------------------------------------------------------------- C22
\* C22: no car drives through a red light: every CarArrive event dispatched
\* while the light is RED leaves its car in stopped, whenever the car was
\* spawned.
C22_NoCarRunsRed ==
    [][ (Dispatch("CarArrive") /\ sim.light.state = "RED") =>
            Count(sim'.cars.stopped, event.id) = 1
      ]_vars

\* ----------------------------------------------------------------- C23
\* the pending events of this type for this entity
EventsOf(S, type, id) == {k \in Pending(S, type) : S.queue[k].id = id}

\* C23: in every state the program reaches, each pedestrian in waiting has
\* exactly one pending PedImpatient event, each pedestrian in walking has
\* exactly one pending PedArrive event and each car in driving has exactly
\* one pending CarExit event.
C23_ActiveHaveOneEvent ==
    /\ \A k \in 1..Len(sim.peds.waiting) :
          Cardinality(EventsOf(sim, "PedImpatient", sim.peds.waiting[k].id)) = 1
    /\ \A k \in 1..Len(sim.peds.walking) :
          Cardinality(EventsOf(sim, "PedArrive", sim.peds.walking[k].id)) = 1
    /\ \A k \in 1..Len(sim.cars.driving) :
          Cardinality(EventsOf(sim, "CarExit", sim.cars.driving[k].id)) = 1

\* a pedestrian has waited a minute and waits on, while a car drives
C23_Witness ==
    /\ \E k \in 1..Len(sim.peds.waiting) :
          /\ Cardinality(EventsOf(sim, "PedImpatient", sim.peds.waiting[k].id)) = 1
          /\ \A e \in EventsOf(sim, "PedImpatient", sim.peds.waiting[k].id) :
                sim.queue[e].at > sim.peds.waiting[k].at
                                     + sim.peds.waiting[k].atlight + IMPATIENT
    /\ sim.cars.driving # <<>>

\* ----------------------------------------------------------------- C24
\* C24: when Simulation.start has returned, the queue is empty, the light is
\* GREEN, the lists walking, waiting, driving and stopped are empty and
\* npeds = ncars = N.
C24_EndsGreenAndEmpty ==
    pc = "done" =>
        /\ sim.queue = <<>>
        /\ sim.light.state = "GREEN"
        /\ sim.peds.walking = <<>>
        /\ sim.peds.waiting = <<>>
        /\ sim.cars.driving = <<>>
        /\ sim.cars.stopped = <<>>
        /\ sim.npeds = sim.maxn
        /\ sim.ncars = sim.maxn

\* the run has ended after the light went through at least one red phase
\* and a car was held at it
C24_Witness ==
    /\ pc = "done"
    /\ sim.light.walkexpire > 0
    /\ \E k \in 1..Len(sim.cardelay) : sim.cardelay[k].x > 0
    /\ sim.peddelay # <<>>

====
